---- MODULE Spec2Model ----
(***************************************************************************)
(* The Saleae Logic / FX2 acquisition driver of libsigrok                  *)
(* (src/libsigrok/sigrok-proto.h, second half: saleae-logic.c).            *)
(*                                                                         *)
(* One device context (struct context), the two function-local statics of  *)
(* receive_transfer, the queue of bulk IN transfers the USB layer holds,   *)
(* the packets the session sink has received, and the registry of device   *)
(* instances with their USB handles.  Three specifications:                *)
(*   Spec     the acquisition engine on an opened device: the host         *)
(*            configures while no transfer is in flight, starts an         *)
(*            acquisition, the USB layer completes the submitted           *)
(*            transfers in submission order, and the host may call         *)
(*            hw_dev_acquisition_stop any number of times;                 *)
(*   CfgSpec  hw_dev_config_set with every capability and value on an      *)
(*            opened device;                                               *)
(*   DevSpec  the device lifecycle from the state before hw_init.          *)
(***************************************************************************)
EXTENDS Integers, Sequences, FiniteSets, TLC

(* ------------------------------------------------------------------ *)
(* Program constants.                                                  *)
(* ------------------------------------------------------------------ *)

\* saleae-logic.h is not part of the source tree; values from the
\* specification (section 3: "typically 4", "FIRED (e.g. -1 ...)",
\* scenario D: MAX_EMPTY_TRANSFERS = 3).
NUM_TRIGGER_STAGES == 4

TRIGGER_FIRED == -1

MAX_EMPTY_TRANSFERS == 3

NUM_SIMUL_TRANSFERS == 2

\* size of the first transfer's buffer (hw_dev_acquisition_start)
FirstTransferSize == 2048

\* size of every later buffer (hw_dev_acquisition_start, receive_transfer)
TransferSize == 4096

\* the value of num_samples that tells receive_transfer to shut down
KillValue == -1

(* ------------------------------------------------------------------ *)
(* Bounds of the model.                                                *)
(* ------------------------------------------------------------------ *)

\* number of host calls (hw_dev_config_set, hw_dev_acquisition_start,
\* hw_dev_acquisition_stop) in one behaviour
MaxHostCalls == 3

\* number of transfer completions delivered in one behaviour
MaxCompletions == 4

\* number of injected allocation / submission failures in one behaviour
MaxFaults == 1

\* number of lifecycle calls (hw_init, hw_dev_open, hw_dev_close,
\* hw_cleanup) in one behaviour
MaxDevCalls == 5

\* number of devices on the USB when hw_init scans several of them
MaxBusLen == 3

\* number of leading samples of the received stream that are remembered
StreamCap == NUM_TRIGGER_STAGES + 1

(* ------------------------------------------------------------------ *)
(* Bytes and buffers.                                                  *)
(* ------------------------------------------------------------------ *)

RECURSIVE BitAnd(_, _)
\* the C operator & on non-negative integers
BitAnd(a, b) ==
    IF a = 0 \/ b = 0 THEN 0
    ELSE (a % 2) * (b % 2) + 2 * BitAnd(a \div 2, b \div 2)

RECURSIVE BitOr(_, _)
\* the C operator | on non-negative integers
BitOr(a, b) ==
    IF a = 0 THEN b
    ELSE IF b = 0 THEN a
    ELSE (IF a % 2 = 1 \/ b % 2 = 1 THEN 1 ELSE 0) + 2 * BitOr(a \div 2, b \div 2)

\* probe_bit computed as 1 << probe->index
Shl_byIndex(v, n) == v * 2 ^ (n + 1)

RECURSIVE Shl(_, _)
\* 1 << n as used for probe_bit
Shl(v, n) == IF n = 0 THEN v ELSE Shl(2 * v, n - 1)

\* A sample buffer of len bytes: the bytes of head, followed by
\* len - Len(head) bytes that all equal fill (fill is 0 when there are none).
Buf(head, fill, len) == [head |-> head, fill |-> fill, len |-> len]

EmptyBuf == Buf(<<>>, 0, 0)

\* cur_buf[i], 0 <= i < buf.len
ByteAt(buf, i) == IF i < Len(buf.head) THEN buf.head[i + 1] ELSE buf.fill

\* the bytes cur_buf + off .. end of buffer (off <= buf.len)
Drop(buf, off) ==
    LET h == IF off >= Len(buf.head) THEN <<>>
             ELSE SubSeq(buf.head, off + 1, Len(buf.head))
        n == buf.len - off
    IN  Buf(h, IF n > Len(h) THEN buf.fill ELSE 0, n)

\* the first n bytes of buf as an explicit sequence (n <= buf.len)
Prefix(buf, n) == [j \in 1..n |-> ByteAt(buf, j - 1)]

\* the last n elements of the sequence s (all of s when it is shorter)
LastN(s, n) == IF Len(s) <= n THEN s ELSE SubSeq(s, Len(s) - n + 1, Len(s))

\* the last n bytes of buf as an explicit sequence
Suffix(buf, n) ==
    LET m == IF buf.len < n THEN buf.len ELSE n
    IN  [j \in 1..m |-> ByteAt(buf, buf.len - m + j - 1)]

\* The transfers of the specification's scenarios B (0x00, 0x00, 0x01,
\* 0xFF, ... of 8 bytes) and C (0, 0, 0, 0, 1).
ScenarioB == Buf(<<0, 0, 1>>, 255, 8)

ScenarioC == Buf(<<0, 0, 0, 0, 1>>, 0, 5)

\* The samples a completed transfer of capacity cap may hold.  While the
\* matcher searches (stage >= 0) receive_transfer reads the samples:
\* nothing, one sample with probe 1 low or high, a completely filled
\* buffer of one repeated sample, and the two scenario transfers.  Once it
\* has fired the samples are passed on unread, and one buffer of each
\* length class (empty, short, full) is delivered.
Buffers(cap, stage) ==
    IF stage >= 0
    THEN { EmptyBuf, Buf(<<0>>, 0, 1), Buf(<<1>>, 0, 1),
           Buf(<<>>, 0, cap), Buf(<<>>, 1, cap), ScenarioB, ScenarioC }
    ELSE { EmptyBuf, Buf(<<1>>, 0, 1), Buf(<<>>, 1, cap) }

(* ------------------------------------------------------------------ *)
(* Probe lists (the value of SR_HWCAP_PROBECONFIG).                    *)
(* ------------------------------------------------------------------ *)

\* probe->trigger == NULL
NoTrigger == <<"NULL">>

Probe(index, enabled, trigger) ==
    [index |-> index, enabled |-> enabled, trigger |-> trigger]

ProbeLists ==
    { <<Probe(1, TRUE, NoTrigger)>>,
      <<Probe(1, TRUE, <<"1">>)>>,
      <<Probe(1, TRUE, <<"0", "1">>)>>,
      <<Probe(1, TRUE, <<"0", "0", "0", "1">>)>> }

\* values given to SR_HWCAP_LIMIT_SAMPLES
Limits == {0, TransferSize}

\* Probe lists for the configuration functions: several probes, disabled
\* probes with and without triggers, the empty list, a "don't care"
\* character, the empty trigger string, and triggers of more than
\* NUM_TRIGGER_STAGES characters.
CfgProbeLists ==
    ProbeLists \cup
    { <<>>,
      <<Probe(1, FALSE, <<"1">>), Probe(2, TRUE, NoTrigger)>>,
      <<Probe(1, TRUE, <<"0", "1">>), Probe(2, TRUE, <<"1", "1", "0">>)>>,
      <<Probe(3, TRUE, <<"1", ".", "0", "1">>), Probe(8, TRUE, NoTrigger),
        Probe(3, FALSE, <<"0">>)>>,
      <<Probe(1, TRUE, <<"0", "0", "0", "0", "1">>)>>,
      <<Probe(2, TRUE, <<"1">>), Probe(1, TRUE, <<"1", "1", "1", "1", "1">>),
        Probe(3, TRUE, <<"1">>)>>,
      <<Probe(1, FALSE, <<"0", "0", "0", "0", "1">>)>>,
      <<Probe(1, FALSE, <<"0", "0", "0", "0", "1">>),
        Probe(2, TRUE, <<"0", "0", "0", "1">>)>>,
      <<Probe(1, TRUE, <<>>)>>,
      <<Probe(1, TRUE, <<"1">>), Probe(2, TRUE, <<>>)>>,
      <<Probe(4, TRUE, <<"1", "0", "1", "0", "1", "1">>)>>,
      <<Probe(1, TRUE, NoTrigger), Probe(2, TRUE, <<"0", "0", "0", "0", "0">>)>> }

\* Where a store to trigger_mask[NUM_TRIGGER_STAGES] or
\* trigger_value[NUM_TRIGGER_STAGES] lands (struct context is declared in
\* saleae-logic.h, which is not part of the source tree): "unused": in
\* bytes that nothing reads; "adjacent": trigger_value[] follows
\* trigger_mask[] directly, so that trigger_mask[NUM_TRIGGER_STAGES] is
\* trigger_value[0], and the byte after trigger_value[] is not read.
Layouts == {"unused", "adjacent"}

(* ------------------------------------------------------------------ *)
(* Sample rates and the rate command.                                  *)
(* ------------------------------------------------------------------ *)

\* supported_samplerates[], in Hz, without the terminating 0
supported_samplerates ==
    <<200000, 250000, 500000, 1000000, 2000000, 4000000, 8000000,
      12000000, 16000000, 24000000>>

\* a rate that is not in the table (3 MHz)
UnsupportedRate == 3 * 1000000

\* values given to SR_HWCAP_SAMPLERATE
Rates ==
    {supported_samplerates[i] : i \in 1..Len(supported_samplerates)}
        \cup {UnsupportedRate}

\* the search loop of set_samplerate accepting every rate
RateSupported_any(samplerate) == TRUE

\* "for (i = 0; supported_samplerates[i]; i++) if (... == samplerate) break;
\*  if (supported_samplerates[i] == 0) return SR_ERR_SAMPLERATE;"
RateSupported(samplerate) ==
    \E i \in 1..Len(supported_samplerates) :
        supported_samplerates[i] = samplerate

\* new_firmware_divider_value(samplerate); 0 for a rate without a case
new_firmware_divider_value(samplerate) ==
    CASE samplerate = 24000000 -> 224   \* 0xe0
      [] samplerate = 16000000 -> 213   \* 0xd5
      [] samplerate = 12000000 -> 226   \* 0xe2
      [] samplerate = 8000000 -> 212    \* 0xd4
      [] samplerate = 4000000 -> 218    \* 0xda
      [] samplerate = 2000000 -> 230    \* 0xe6
      [] samplerate = 1000000 -> 142    \* 0x8e
      [] samplerate = 500000 -> 254     \* 0xfe
      [] samplerate = 250000 -> 158     \* 0x9e
      [] samplerate = 200000 -> 78      \* 0x4e
      [] OTHER -> 0

\* "(uint8_t) (48 / (samplerate / 1000000.0)) - 1" stored in a uint8_t:
\* the quotient is truncated to 8 bits by the cast, 1 is subtracted, and
\* the assignment to divider truncates again.  (For every rate of the
\* table the double quotient is the exact integer 48000000 / samplerate.)
legacy_divider_value(samplerate) ==
    (((48000000 \div samplerate) % 256) - 1) % 256

\* the command byte taken from the other firmware generation
CommandByte_crossed(new_firmware) == IF new_firmware = 1 THEN 1 ELSE 213

\* "buf[0] = (new_saleae_logic_firmware) ? 0xd5 : 0x01;"
CommandByte(new_firmware) == IF new_firmware = 1 THEN 213 ELSE 1

\* "if (new_saleae_logic_firmware) divider = new_firmware_divider_value(..)
\*  else divider = (uint8_t) (48 / (samplerate / 1000000.0)) - 1;"
Divider(new_firmware, samplerate) ==
    IF new_firmware = 1 THEN new_firmware_divider_value(samplerate)
    ELSE legacy_divider_value(samplerate)

\* set_samplerate(sdi, samplerate) for a device whose current rate is cur,
\* bulk_ok telling whether libusb_bulk_transfer returns 0: the return
\* value, the payloads handed to libusb_bulk_transfer for endpoint 1 OUT,
\* and the new ctx->cur_samplerate
set_samplerate(cur, new_firmware, samplerate, bulk_ok) ==
    IF ~RateSupported(samplerate)
    THEN [ret |-> "SR_ERR_SAMPLERATE", out |-> <<>>, cur_samplerate |-> cur]
    ELSE LET buf == <<CommandByte(new_firmware),
                      Divider(new_firmware, samplerate)>>
         IN  IF bulk_ok
             THEN [ret |-> "SR_OK", out |-> <<buf>>,
                   cur_samplerate |-> samplerate]
             ELSE [ret |-> "SR_ERR", out |-> <<buf>>, cur_samplerate |-> cur]

(* ------------------------------------------------------------------ *)
(* The USB bus and the device instances.                               *)
(* ------------------------------------------------------------------ *)

\* the address hw_init records when it cannot know the address yet
AddressUnknown == 255

\* A device on the bus as libusb shows it to hw_init: whether its
\* descriptor can be read, whether its VID/PID is in supported_fx2[],
\* what check_conf_profile finds ("none": not the Logic configuration,
\* "old": 2 endpoints, "new": 4 endpoints, "old_other" and "new_other": 2
\* or 4 endpoints that do not have the addresses 1 OUT and 2 IN), whether
\* ezusb_upload_firmware succeeds, and its bus number and address.
UsbDevice(desc_ok, supported, conf, upload_ok, address) ==
    [desc_ok |-> desc_ok, supported |-> supported, conf |-> conf,
     upload_ok |-> upload_ok, bus |-> 1, address |-> address]

LogicNew == UsbDevice(TRUE, TRUE, "new", TRUE, 5)

LogicOld == UsbDevice(TRUE, TRUE, "old", TRUE, 6)

BlankFx2 == UsbDevice(TRUE, TRUE, "none", TRUE, 7)

BlankFx2NoUpload == UsbDevice(TRUE, TRUE, "none", FALSE, 8)

OtherDevice == UsbDevice(TRUE, FALSE, "none", FALSE, 9)

Unreadable == UsbDevice(FALSE, TRUE, "none", FALSE, 10)

\* FX2 devices with 4 or 2 endpoints that are not the ones of the Logic
Fx2FourEndpoints == UsbDevice(TRUE, TRUE, "new_other", TRUE, 12)

Fx2TwoEndpoints == UsbDevice(TRUE, TRUE, "old_other", FALSE, 13)

\* what libusb_get_device_list may return to hw_init: at most one device
\* with a supported VID/PID, among devices that are skipped
Buses ==
    { <<>>, <<LogicNew>>, <<LogicOld>>, <<BlankFx2>>, <<BlankFx2NoUpload>>,
      <<OtherDevice, LogicOld>>, <<Unreadable, BlankFx2, OtherDevice>> }

\* the kinds of devices libusb_get_device_list may show
DeviceKinds ==
    { LogicNew, LogicOld, BlankFx2, BlankFx2NoUpload, OtherDevice, Unreadable,
      Fx2FourEndpoints, Fx2TwoEndpoints }

\* the address of the device at position i of the device list
AddressAt(i) == 20 + i

\* the device lists of up to MaxBusLen devices, several of them with a
\* supported VID/PID, every device with an address of its own
ScanBuses ==
    UNION { { [i \in 1..n |-> [kinds[i] EXCEPT !.address = AddressAt(i)]] :
                kinds \in [1..n -> DeviceKinds] } : n \in 0..MaxBusLen }

\* struct sr_dev_inst with its struct context and struct sr_usb_dev_inst:
\* sdi->index, sdi->status, ctx->usb->devhdl (TRUE: an open handle),
\* ctx->usb->bus, ctx->usb->address, ctx->fw_updated (0: never set),
\* ctx->cur_samplerate; claimed tells whether the interface of the handle
\* is claimed (state of the USB layer)
DevInst(index, status, bus, address, fw_updated) ==
    [index |-> index, status |-> status, devhdl |-> FALSE, claimed |-> FALSE,
     bus |-> bus, address |-> address, fw_updated |-> fw_updated,
     cur_samplerate |-> 0]

\* dev_index values the host passes: the first one is registered after a
\* hw_init that found a device, the second one never is
DevIndices == {0, 1}

\* session_data values the host passes
Sinks == {"sink", "NULL"}

(* ------------------------------------------------------------------ *)
(* State.                                                              *)
(* ------------------------------------------------------------------ *)

VARIABLES
    probe_mask,            \* ctx->probe_mask
    trigger_mask,          \* ctx->trigger_mask[NUM_TRIGGER_STAGES], 1-based here
    trigger_value,         \* ctx->trigger_value[NUM_TRIGGER_STAGES]
    trigger_stage,         \* ctx->trigger_stage
    trigger_buffer,        \* ctx->trigger_buffer[NUM_TRIGGER_STAGES]
    limit_samples,         \* ctx->limit_samples
    num_samples,           \* static int num_samples of receive_transfer
    empty_transfer_count,  \* static int empty_transfer_count
    inflight,              \* submitted transfers, in submission order
    freed,                 \* number of libusb_free_transfer calls
    sent,                  \* packets the sink received since the last start
    acq,                   \* "idle", "running", "failed" or "stopped"
    last,                  \* what the last handler did (observation)
    stream,                \* first StreamCap samples received since the last start
    recent,                \* last NUM_TRIGGER_STAGES samples ever received
    count,                 \* how often each kind of event happened
    dev_insts,             \* static GSList *dev_insts: the device instances
    usb_context,           \* usb_context # NULL
    new_saleae_logic_firmware,  \* static int new_saleae_logic_firmware
    open_handles           \* handles libusb_open returned that are not closed

vars == <<probe_mask, trigger_mask, trigger_value, trigger_stage,
          trigger_buffer, limit_samples, num_samples, empty_transfer_count,
          inflight, freed, sent, acq, last, stream, recent, count,
          dev_insts, usb_context, new_saleae_logic_firmware, open_handles>>

devVars == <<dev_insts, usb_context, new_saleae_logic_firmware, open_handles>>

ctxVars == <<probe_mask, trigger_mask, trigger_value, trigger_stage,
             trigger_buffer, limit_samples>>

Stages == 1..NUM_TRIGGER_STAGES

(* ------------------------------------------------------------------ *)
(* Packets.                                                            *)
(* ------------------------------------------------------------------ *)

Packet(type, length, data) ==
    [type |-> type, unitsize |-> IF type = "LOGIC" THEN 1 ELSE 0,
     length |-> length, data |-> data]

HeaderPacket == Packet("HEADER", 0, EmptyBuf)

TriggerPacket == Packet("TRIGGER", 0, EmptyBuf)

EndPacket == Packet("END", 0, EmptyBuf)

LogicPacket(length, data) == Packet("LOGIC", length, data)

(* ------------------------------------------------------------------ *)
(* configure_probes.                                                   *)
(* ------------------------------------------------------------------ *)

\* the length check rejecting a trigger of NUM_TRIGGER_STAGES characters
TooManyStages_atLimit(stage) == stage >= NUM_TRIGGER_STAGES

\* "if (stage > NUM_TRIGGER_STAGES) return SR_ERR;"
TooManyStages(stage) == stage > NUM_TRIGGER_STAGES

RECURSIVE TriggerChars(_, _, _, _)
\* the loop "for (tc = probe->trigger; *tc; tc++)": c is the record of
\* trigger_mask, trigger_value, stage and the return value so far.  The
\* fifth character of a trigger is stored at index NUM_TRIGGER_STAGES,
\* past the end of both arrays, before the length is checked: c.oob
\* records the store, and c.layout tells where it lands.
TriggerChars(tr, p, probe_bit, c) ==
    IF p > Len(tr) THEN c
    ELSE LET inside == c.stage < NUM_TRIGGER_STAGES
             m2 == IF inside
                   THEN [c.mask EXCEPT ![c.stage + 1] = BitOr(@, probe_bit)]
                   ELSE c.mask
             v1 == IF ~inside /\ c.layout = "adjacent"
                   THEN [c.value EXCEPT ![1] = BitOr(@, probe_bit)]
                   ELSE c.value
             v2 == IF inside /\ tr[p] = "1"
                   THEN [v1 EXCEPT ![c.stage + 1] = BitOr(@, probe_bit)]
                   ELSE v1
             s2 == c.stage + 1
             c2 == [c EXCEPT !.mask = m2, !.value = v2, !.stage = s2,
                             !.oob = @ \/ ~inside]
         IN  IF TooManyStages(s2)
             THEN [c2 EXCEPT !.ret = "SR_ERR"]
             ELSE TriggerChars(tr, p + 1, probe_bit, c2)

RECURSIVE ProbeLoop(_, _, _)
\* the loop "for (l = probes; l; l = l->next)"
ProbeLoop(probes, l, c) ==
    IF l > Len(probes) \/ c.ret # "SR_OK" THEN c
    ELSE LET probe == probes[l]
             probe_bit == Shl(1, probe.index - 1)
         IN  IF ~probe.enabled THEN ProbeLoop(probes, l + 1, c)
             ELSE LET c1 == [c EXCEPT !.probe_mask = BitOr(@, probe_bit)]
                  IN  IF probe.trigger = NoTrigger
                      THEN ProbeLoop(probes, l + 1, c1)
                      ELSE ProbeLoop(probes, l + 1,
                               TriggerChars(probe.trigger, 1, probe_bit,
                                            [c1 EXCEPT !.stage = 0]))

\* configure_probes(ctx, probes): the new probe_mask, trigger_mask,
\* trigger_value and trigger_stage, the return value, and whether it
\* stored past the end of the arrays
configure_probes(probes, layout) ==
    LET c == ProbeLoop(probes, 1,
                 [probe_mask |-> 0,
                  mask |-> [s \in Stages |-> 0],
                  value |-> [s \in Stages |-> 0],
                  stage |-> -1,
                  ret |-> "SR_OK",
                  oob |-> FALSE,
                  layout |-> layout])
    IN  [probe_mask |-> c.probe_mask,
         trigger_mask |-> c.mask,
         trigger_value |-> c.value,
         trigger_stage |-> IF c.ret # "SR_OK" THEN trigger_stage
                           ELSE IF c.stage = -1 THEN TRIGGER_FIRED
                           ELSE 0,
         ret |-> c.ret,
         oob |-> c.oob]

(* ------------------------------------------------------------------ *)
(* receive_transfer: the conditions of its branches.                   *)
(* ------------------------------------------------------------------ *)

\* receive_transfer without the check of the kill switch
KillSwitchSet_ignored(ns) == FALSE

\* "if (num_samples == -1)"
KillSwitchSet(ns) == ns = KillValue

\* the watchdog comparing with >= instead of >
WatchdogTripped_early(cnt) == cnt >= MAX_EMPTY_TRANSFERS

\* "if (empty_transfer_count > MAX_EMPTY_TRANSFERS)"
WatchdogTripped(cnt) == cnt > MAX_EMPTY_TRANSFERS

\* "(cur_buf[i] & ctx->trigger_mask[stage]) == ctx->trigger_value[stage]"
StageMatches(b, stage) ==
    BitAnd(b, trigger_mask[stage + 1]) = trigger_value[stage + 1]

\* the test for the last stage looking at the mask of the next stage only
AllStagesMatched_maskOnly(stage) ==
    stage < NUM_TRIGGER_STAGES /\ trigger_mask[stage + 1] = 0

\* "ctx->trigger_stage == NUM_TRIGGER_STAGES ||
\*  ctx->trigger_mask[ctx->trigger_stage] == 0"
AllStagesMatched(stage) ==
    stage = NUM_TRIGGER_STAGES \/ trigger_mask[stage + 1] = 0

\* the sample limit comparing with >= instead of >
LimitExceeded_atLimit(ns, limit) == limit # 0 /\ ns >= limit

\* "ctx->limit_samples && (unsigned int) num_samples > ctx->limit_samples"
LimitExceeded(ns, limit) == limit # 0 /\ ns > limit

\* "i -= ctx->trigger_stage; if (i < -1) i = -1;"
Rewind(i, stage) == IF i - stage < -1 THEN -1 ELSE i - stage

RECURSIVE MatchLoop(_, _, _, _)
\* The loop "for (i = 0; i < cur_buflen; i++)" from index i on, with
\* ctx->trigger_stage = stage and ctx->trigger_buffer = tb.  It ends in one
\* of three ways: "fired" (the break after TRIGGER and the trigger_buffer
\* LOGIC packet were sent), "return" (a stage matched that is not the last
\* one: receive_transfer returns) or "end" (the buffer is exhausted).
\* Inside the run of equal bytes that ends the buffer, with stage 0 and a
\* byte that does not match stage 0, every remaining iteration is the same
\* no-op, so the loop is cut short there.  used: the indices at which
\* trigger_mask[], trigger_value[] and trigger_buffer[] were accessed.
MatchLoop(buf, i, stage, tb) ==
    IF i >= buf.len
    THEN [kind |-> "end", stage |-> stage, tb |-> tb, offset |-> 0, at |-> i,
          used |-> {}]
    ELSE LET b == ByteAt(buf, i) IN
         IF StageMatches(b, stage)
         THEN LET tb2 == [tb EXCEPT ![stage + 1] = b]
                  st2 == stage + 1
                  u2 == IF st2 = NUM_TRIGGER_STAGES THEN {stage}
                        ELSE {stage, st2}
              IN  IF AllStagesMatched(st2)
                  THEN [kind |-> "fired", stage |-> st2, tb |-> tb2,
                        offset |-> i + 1, at |-> i, used |-> u2]
                  ELSE [kind |-> "return", stage |-> st2, tb |-> tb2,
                        offset |-> 0, at |-> i, used |-> u2]
         ELSE IF stage > 0
              THEN [MatchLoop(buf, Rewind(i, stage) + 1, 0, tb) EXCEPT
                       !.used = @ \cup {stage}]
              ELSE IF i >= Len(buf.head)
                   THEN [kind |-> "end", stage |-> 0, tb |-> tb,
                         offset |-> 0, at |-> buf.len, used |-> {0}]
                   ELSE [MatchLoop(buf, i + 1, 0, tb) EXCEPT
                            !.used = @ \cup {0}]

(* ------------------------------------------------------------------ *)
(* receive_transfer: what it does with a completed buffer.             *)
(* ------------------------------------------------------------------ *)

\* the two packets of a fired trigger sent in the opposite order
FirePackets_swapped(stage, tb) ==
    <<LogicPacket(stage, Buf(SubSeq(tb, 1, stage), 0, stage)), TriggerPacket>>

\* the two packets sent when the last stage matched: SR_DF_TRIGGER, then
\* SR_DF_LOGIC with logic.length = ctx->trigger_stage and
\* logic.data = ctx->trigger_buffer
FirePackets(stage, tb) ==
    <<TriggerPacket, LogicPacket(stage, Buf(SubSeq(tb, 1, stage), 0, stage))>>

\* the packet sent for the incoming transfer: logic.length =
\* cur_buflen - trigger_offset, logic.data = cur_buf + trigger_offset
TransferPacket(buf, trigger_offset) ==
    LogicPacket(buf.len - trigger_offset, Drop(buf, trigger_offset))

\* hw_dev_acquisition_stop as called from receive_transfer: the packet it
\* sends; receive_transfer(NULL) then sets num_samples to -1
StopPackets(stop) == IF stop THEN <<EndPacket>> ELSE <<>>

\* the samples that completed the stages, as they lie in the received
\* stream: the k samples that end at index at of buf, the ones before the
\* buffer taken from prev (-1 where the stream has no sample)
WindowAt(prev, buf, at, k) ==
    [j \in 1..k |->
        LET pos == at - k + j
        IN  IF pos >= 0 THEN ByteAt(buf, pos)
            ELSE IF Len(prev) + pos + 1 >= 1 THEN prev[Len(prev) + pos + 1]
            ELSE -1]

\* receive_transfer from "if (cur_buflen == 0)" to its end: the new values
\* of the statics and of the trigger state, the packets sent, the indices
\* used by the matcher, and the number of g_free(cur_buf) calls
ProcessBuffer(buf) ==
    IF buf.len = 0
    THEN LET c == empty_transfer_count + 1
             stop == WatchdogTripped(c)
         IN  [etc |-> c, stage |-> trigger_stage, tb |-> trigger_buffer,
              pkts |-> StopPackets(stop),
              ns |-> IF stop THEN KillValue ELSE num_samples,
              stop |-> stop, kind |-> "empty", window |-> <<>>,
              used |-> {}, gfree |-> 0]
    ELSE LET m == IF trigger_stage >= 0
                  THEN MatchLoop(buf, 0, trigger_stage, trigger_buffer)
                  ELSE [kind |-> "passed", stage |-> trigger_stage,
                        tb |-> trigger_buffer, offset |-> 0, at |-> 0,
                        used |-> {}]
         IN  IF m.kind = "return"
             THEN [etc |-> 0, stage |-> m.stage, tb |-> m.tb, pkts |-> <<>>,
                   ns |-> num_samples, stop |-> FALSE, kind |-> m.kind,
                   window |-> <<>>, used |-> m.used, gfree |-> 0]
             ELSE IF m.kind = "fired" \/ m.stage = TRIGGER_FIRED
             THEN LET ns2 == num_samples + buf.len
                      stop == LimitExceeded(ns2, limit_samples)
                  IN  [etc |-> 0, stage |-> TRIGGER_FIRED, tb |-> m.tb,
                       pkts |-> (IF m.kind = "fired"
                                 THEN FirePackets(m.stage, m.tb) ELSE <<>>)
                                \o <<TransferPacket(buf, m.offset)>>
                                \o StopPackets(stop),
                       ns |-> IF stop THEN KillValue ELSE ns2,
                       stop |-> stop, kind |-> m.kind,
                       window |-> IF m.kind = "fired"
                                  THEN WindowAt(recent, buf, m.at, m.stage)
                                  ELSE <<>>,
                       used |-> m.used, gfree |-> 1]
             ELSE [etc |-> 0, stage |-> m.stage, tb |-> m.tb, pkts |-> <<>>,
                   ns |-> num_samples, stop |-> FALSE, kind |-> m.kind,
                   window |-> <<>>, used |-> m.used, gfree |-> 0]

(* ------------------------------------------------------------------ *)
(* Observation.                                                        *)
(* ------------------------------------------------------------------ *)

\* idx, sink, arg: the dev_index, the session_data and the value of a host
\* call; out: the payloads the handler wrote to endpoint 1 OUT (for
\* hw_init: the positions of the devices it uploaded firmware to); oob: it
\* stored past the end of trigger_mask[] or trigger_value[]; used: the
\* indices at which the matcher accessed the trigger arrays; gfree: the
\* number of g_free(cur_buf) calls; closed: the handles it closed; pre: the
\* device instance, the configuration, the firmware flag, the size of the
\* registry and the number of open handles as they were before the last
\* hw_dev_open of a registered device, with the address the device was
\* found at (kept by the hw_dev_close that directly follows a successful
\* hw_dev_open)
NoEvent ==
    [op |-> "none", ret |-> "SR_OK", buf |-> EmptyBuf, kind |-> "none",
     stage0 |-> TRIGGER_FIRED, ns0 |-> 0, etc0 |-> 0, sent0 |-> 0,
     stop |-> FALSE, window |-> <<>>, idx |-> 0, sink |-> "sink", arg |-> 0,
     out |-> <<>>, oob |-> FALSE, used |-> {}, gfree |-> 0, closed |-> 0,
     pre |-> {}]

\* host: host calls; compl: completions delivered; fault: failures injected;
\* stops: invocations of hw_dev_acquisition_stop (by the host or by
\* receive_transfer); emptyRun: zero-length completions processed in a row;
\* xfers: transfers hw_dev_acquisition_start submitted successfully;
\* life: calls of hw_init, hw_dev_open, hw_dev_close and hw_cleanup
NoCount ==
    [host |-> 0, compl |-> 0, fault |-> 0, stops |-> 0, emptyRun |-> 0,
     xfers |-> 0, life |-> 0]

\* the k-th transfer submitted by hw_dev_acquisition_start
Submitted(n) ==
    [j \in 1..n |-> [length |-> IF j = 1 THEN FirstTransferSize
                                ELSE TransferSize]]

(* ------------------------------------------------------------------ *)
(* Initial state: fx2_dev_new (g_try_malloc0, trigger_stage =           *)
(* TRIGGER_FIRED) and the initialisers of the statics.                 *)
(* ------------------------------------------------------------------ *)

\* the device instance of a Logic with firmware after hw_init and a
\* successful hw_dev_open: open handle, claimed interface, default rate
OpenDevice(d) ==
    [DevInst(0, "SR_ST_ACTIVE", d.bus, d.address, 0) EXCEPT
        !.devhdl = TRUE, !.claimed = TRUE,
        !.cur_samplerate = supported_samplerates[1]]

\* the acquisition engine starts with one device found and opened
Init ==
    /\ dev_insts = <<OpenDevice(LogicOld)>>
    /\ usb_context = TRUE
    /\ new_saleae_logic_firmware = 0
    /\ open_handles = 1
    /\ probe_mask = 0
    /\ trigger_mask = [s \in Stages |-> 0]
    /\ trigger_value = [s \in Stages |-> 0]
    /\ trigger_stage = TRIGGER_FIRED
    /\ trigger_buffer = [s \in Stages |-> 0]
    /\ limit_samples = 0
    /\ num_samples = 0
    /\ empty_transfer_count = 0
    /\ inflight = <<>>
    /\ freed = 0
    /\ sent = <<>>
    /\ acq = "idle"
    /\ last = NoEvent
    /\ stream = <<>>
    /\ recent = <<>>
    /\ count = NoCount

(* ------------------------------------------------------------------ *)
(* Host operations.                                                    *)
(* ------------------------------------------------------------------ *)

HwCaps == {"SR_HWCAP_PROBECONFIG", "SR_HWCAP_LIMIT_SAMPLES", "SR_HWCAP_OTHER"}

ConfigValues(hwcap) ==
    IF hwcap = "SR_HWCAP_PROBECONFIG" THEN ProbeLists
    ELSE IF hwcap = "SR_HWCAP_LIMIT_SAMPLES" THEN Limits
    ELSE {0}

\* sr_dev_inst_get(dev_insts, dev_index): the position in dev_insts of the
\* first instance with that index, 0 when there is none (NULL)
sr_dev_inst_get(dev_index) ==
    IF \E k \in 1..Len(dev_insts) : dev_insts[k].index = dev_index
    THEN CHOOSE k \in 1..Len(dev_insts) :
             /\ dev_insts[k].index = dev_index
             /\ \A j \in 1..(k - 1) : dev_insts[j].index # dev_index
    ELSE 0

\* the instance has an open USB handle (the host sets a rate and starts an
\* acquisition only on a device it has opened)
HasHandle(dev_index) ==
    sr_dev_inst_get(dev_index) # 0
        /\ dev_insts[sr_dev_inst_get(dev_index)].devhdl

\* hw_dev_config_set(dev_index, hwcap, value); bulk_ok: whether the bulk
\* transfer of set_samplerate succeeds; layout: where configure_probes
\* stores when it stores past the end of the arrays.  The host configures
\* while no acquisition runs and no transfer is in flight.
hw_dev_config_set(dev_index, hwcap, value, bulk_ok, layout) ==
    /\ acq # "running"
    /\ inflight = <<>>
    /\ count.host < MaxHostCalls
    /\ (hwcap = "SR_HWCAP_SAMPLERATE" /\ sr_dev_inst_get(dev_index) # 0
            /\ RateSupported(value)) => HasHandle(dev_index)
    /\ hwcap # "SR_HWCAP_SAMPLERATE" => bulk_ok
    /\ count' = [count EXCEPT !.host = @ + 1]
    /\ LET k == sr_dev_inst_get(dev_index)
           ev == [NoEvent EXCEPT !.op = "config_set", !.idx = dev_index,
                                 !.kind = hwcap, !.arg = value]
       IN
       IF k = 0
       THEN /\ last' = [ev EXCEPT !.ret = "SR_ERR"]
            /\ UNCHANGED <<probe_mask, trigger_mask, trigger_value,
                           trigger_stage, limit_samples, dev_insts>>
       ELSE IF hwcap = "SR_HWCAP_SAMPLERATE"
       THEN LET r == set_samplerate(dev_insts[k].cur_samplerate,
                                    new_saleae_logic_firmware, value, bulk_ok)
            IN  /\ dev_insts' = [dev_insts EXCEPT
                                   ![k].cur_samplerate = r.cur_samplerate]
                /\ last' = [ev EXCEPT !.ret = r.ret, !.out = r.out]
                /\ UNCHANGED <<probe_mask, trigger_mask, trigger_value,
                               trigger_stage, limit_samples>>
       ELSE IF hwcap = "SR_HWCAP_PROBECONFIG"
       THEN LET c == configure_probes(value, layout)
            IN  /\ probe_mask' = c.probe_mask
                /\ trigger_mask' = c.trigger_mask
                /\ trigger_value' = c.trigger_value
                /\ trigger_stage' = c.trigger_stage
                /\ last' = [ev EXCEPT !.ret = c.ret, !.oob = c.oob]
                /\ UNCHANGED <<limit_samples, dev_insts>>
       ELSE IF hwcap = "SR_HWCAP_LIMIT_SAMPLES"
       THEN /\ limit_samples' = value
            /\ last' = ev
            /\ UNCHANGED <<probe_mask, trigger_mask, trigger_value,
                           trigger_stage, dev_insts>>
       ELSE /\ last' = [ev EXCEPT !.ret = "SR_ERR"]
            /\ UNCHANGED <<probe_mask, trigger_mask, trigger_value,
                           trigger_stage, limit_samples, dev_insts>>
    /\ UNCHANGED <<trigger_buffer, num_samples, empty_transfer_count,
                   inflight, freed, sent, acq, stream, recent,
                   usb_context, new_saleae_logic_firmware, open_handles>>

\* how hw_dev_acquisition_start may fail: the allocation of the i-th buffer
\* or the submission of the i-th transfer (at = i, counted from 0)
StartFaults ==
    {[kind |-> "none", at |-> NUM_SIMUL_TRANSFERS]}
        \cup {[kind |-> k, at |-> i] :
                 k \in {"malloc", "submit"}, i \in 0..(NUM_SIMUL_TRANSFERS - 1)}

\* hw_dev_acquisition_start(dev_index, session_data)
hw_dev_acquisition_start(dev_index, session_data, f) ==
    /\ acq # "running"
    /\ count.host < MaxHostCalls
    /\ f.kind # "none" => count.fault < MaxFaults
    /\ sr_dev_inst_get(dev_index) # 0 => HasHandle(dev_index)
    /\ sr_dev_inst_get(dev_index) = 0 => f.kind = "none"
    /\ LET ev == [NoEvent EXCEPT !.op = "acquisition_start",
                                 !.idx = dev_index, !.sink = session_data]
       IN
       IF sr_dev_inst_get(dev_index) = 0
       THEN /\ count' = [count EXCEPT !.host = @ + 1]
            /\ last' = [ev EXCEPT !.ret = "SR_ERR"]
            /\ UNCHANGED <<inflight, sent, acq, stream>>
       ELSE /\ count' = [count EXCEPT
                           !.host = @ + 1,
                           !.fault = IF f.kind = "none" THEN @ ELSE @ + 1,
                           !.xfers = @ + f.at]
            /\ inflight' = inflight \o Submitted(f.at)
            /\ sent' = IF f.kind = "none" THEN <<HeaderPacket>> ELSE <<>>
            /\ acq' = IF f.kind = "none" THEN "running" ELSE "failed"
            /\ last' = [ev EXCEPT
                          !.ret = IF f.kind = "none" THEN "SR_OK"
                                  ELSE IF f.kind = "malloc" THEN "SR_ERR_MALLOC"
                                  ELSE "SR_ERR"]
            /\ stream' = <<>>
    /\ UNCHANGED <<ctxVars, num_samples, empty_transfer_count, freed, recent,
                   devVars>>

\* hw_dev_acquisition_stop(dev_index, session_data) called by the host:
\* sends SR_DF_END, then receive_transfer(NULL) sets num_samples = -1;
\* dev_index is not looked at
hw_dev_acquisition_stop(dev_index, session_data) ==
    /\ acq \in {"running", "stopped"}
    /\ count.host < MaxHostCalls
    /\ count' = [count EXCEPT !.host = @ + 1, !.stops = @ + 1]
    /\ sent' = sent \o StopPackets(TRUE)
    /\ num_samples' = KillValue
    /\ acq' = "stopped"
    /\ last' = [NoEvent EXCEPT !.op = "acquisition_stop", !.stop = TRUE,
                               !.ns0 = num_samples, !.sent0 = Len(sent),
                               !.stage0 = trigger_stage,
                               !.etc0 = empty_transfer_count,
                               !.idx = dev_index, !.sink = session_data]
    /\ UNCHANGED <<ctxVars, empty_transfer_count, inflight, freed, stream,
                   recent, devVars>>

(* ------------------------------------------------------------------ *)
(* Transfer completion.                                                *)
(* ------------------------------------------------------------------ *)

\* receive_transfer(transfer) for the oldest submitted transfer, completed
\* with the samples buf; fault: the allocation of new_buf fails ("malloc")
\* or libusb_submit_transfer fails ("submit")
receive_transfer(buf, fault) ==
    /\ inflight # <<>>
    /\ UNCHANGED devVars
    /\ count.compl < MaxCompletions
    /\ buf.len <= Head(inflight).length
    /\ fault # "none" => count.fault < MaxFaults
    /\ LET ev == [NoEvent EXCEPT !.op = "receive_transfer",
                                 !.stage0 = trigger_stage,
                                 !.ns0 = num_samples,
                                 !.etc0 = empty_transfer_count,
                                 !.sent0 = Len(sent)]
       IN
       IF KillSwitchSet(num_samples)
       THEN \* libusb_free_transfer(transfer); return
            /\ fault = "none"
            /\ inflight' = Tail(inflight)
            /\ freed' = freed + 1
            /\ last' = [ev EXCEPT !.kind = "killed", !.buf = buf]
            /\ count' = [count EXCEPT !.compl = @ + 1]
            /\ UNCHANGED <<ctxVars, num_samples, empty_transfer_count, sent,
                           acq, stream, recent>>
       ELSE /\ count' = [count EXCEPT
                           !.compl = @ + 1,
                           !.fault = IF fault = "none" THEN @ ELSE @ + 1,
                           !.stops = IF fault # "malloc"
                                        /\ ProcessBuffer(buf).stop
                                     THEN @ + 1 ELSE @,
                           !.emptyRun = IF fault = "malloc" THEN @
                                        ELSE IF buf.len = 0 THEN @ + 1
                                        ELSE 0]
            /\ stream' = LET room == StreamCap - Len(stream)
                             n == IF buf.len < room THEN buf.len ELSE room
                         IN  stream \o Prefix(buf, n)
            /\ recent' = LastN(recent \o Suffix(buf, NUM_TRIGGER_STAGES),
                               NUM_TRIGGER_STAGES)
            /\ freed' = freed
            /\ IF fault = "malloc"
               THEN \* new_buf could not be allocated: return
                    /\ inflight' = Tail(inflight)
                    /\ last' = [ev EXCEPT !.kind = "nomem", !.buf = buf]
                    /\ UNCHANGED <<ctxVars, num_samples, empty_transfer_count,
                                   sent, acq>>
               ELSE LET r == ProcessBuffer(buf)
                    IN  /\ inflight' =
                              IF fault = "submit" THEN Tail(inflight)
                              ELSE Append(Tail(inflight),
                                          [length |-> TransferSize])
                        /\ empty_transfer_count' = r.etc
                        /\ trigger_stage' = r.stage
                        /\ trigger_buffer' = r.tb
                        /\ num_samples' = r.ns
                        /\ sent' = sent \o r.pkts
                        /\ acq' = IF r.stop THEN "stopped" ELSE acq
                        /\ last' = [ev EXCEPT !.kind = r.kind, !.buf = buf,
                                              !.stop = r.stop,
                                              !.window = r.window,
                                              !.used = r.used,
                                              !.gfree = r.gfree]
                        /\ UNCHANGED <<probe_mask, trigger_mask, trigger_value,
                                       limit_samples>>

(* ------------------------------------------------------------------ *)
(* Specification.                                                      *)
(* ------------------------------------------------------------------ *)

Faults == {"none", "malloc", "submit"}

\* The acquisition engine: the host works with the opened device 0.  The
\* completions that arrive once the kill switch is set carry no samples
\* here (they are freed unread).
Next ==
    \/ \E hwcap \in HwCaps : \E value \in ConfigValues(hwcap) :
           hw_dev_config_set(0, hwcap, value, TRUE, "unused")
    \/ \E f \in StartFaults : hw_dev_acquisition_start(0, "sink", f)
    \/ hw_dev_acquisition_stop(0, "sink")
    \/ \E cap \in {FirstTransferSize, TransferSize} :
           \E buf \in Buffers(cap, trigger_stage) : \E fault \in Faults :
               /\ KillSwitchSet(num_samples) => buf = EmptyBuf
               /\ receive_transfer(buf, fault)

Spec == Init /\ [][Next]_vars

\* The acquisition engine without a trigger, started several times: the
\* probes are configured without a trigger string, and every completion
\* may carry samples, also one that arrives when the kill switch is set.
RestartNext ==
    \/ hw_dev_config_set(0, "SR_HWCAP_PROBECONFIG",
                         <<Probe(1, TRUE, NoTrigger)>>, TRUE, "unused")
    \/ \E f \in StartFaults : hw_dev_acquisition_start(0, "sink", f)
    \/ hw_dev_acquisition_stop(0, "sink")
    \/ \E cap \in {FirstTransferSize, TransferSize} :
           \E buf \in Buffers(cap, TRIGGER_FIRED) : \E fault \in Faults :
               receive_transfer(buf, fault)

RestartSpec == Init /\ [][RestartNext]_vars

TypeOK ==
    /\ trigger_stage \in (0..NUM_TRIGGER_STAGES) \cup {TRIGGER_FIRED}
    /\ num_samples \in Int
    /\ Len(inflight) <= NUM_SIMUL_TRANSFERS * MaxHostCalls

(* ------------------------------------------------------------------ *)
(* Device lifecycle: hw_init, hw_dev_open, hw_dev_close, hw_cleanup.   *)
(* ------------------------------------------------------------------ *)

\* check_conf_profile(dev): the return value and new_saleae_logic_firmware
\* afterwards.  The flag is assigned when the number of endpoints is read,
\* before the addresses of the endpoints are compared.
check_conf_profile(u, flag) ==
    IF u.conf \in {"new", "new_other"}
    THEN [ret |-> IF u.conf = "new" THEN 1 ELSE 0, flag |-> 1]
    ELSE IF u.conf \in {"old", "old_other"}
    THEN [ret |-> IF u.conf = "old" THEN 1 ELSE 0, flag |-> 0]
    ELSE [ret |-> 0, flag |-> flag]

\* the body of the loop registering every supported device as one that has
\* the firmware
ScanDevice_allInactive(u, i, c) ==
    IF ~u.desc_ok \/ ~u.supported THEN c
    ELSE [c EXCEPT !.insts = Append(@, DevInst(Len(c.insts), "SR_ST_INACTIVE",
                                               u.bus, u.address, 0))]

\* the body of the loop "for (i = 0; devlist[i]; i++)" of hw_init for the
\* device u at position i: c.insts is dev_insts so far (devcnt =
\* Len(c.insts)), c.flag is new_saleae_logic_firmware as check_conf_profile
\* left it, c.uploads are the positions of the devices
\* ezusb_upload_firmware was called for
ScanDevice(u, i, c) ==
    LET devcnt == Len(c.insts)
        p == check_conf_profile(u, c.flag)
    IN  IF ~u.desc_ok \/ ~u.supported THEN c
        ELSE IF p.ret # 0
        THEN [c EXCEPT !.insts = Append(@, DevInst(devcnt, "SR_ST_INACTIVE",
                                                   u.bus, u.address, 0)),
                       !.flag = p.flag]
        ELSE [c EXCEPT !.insts = Append(@, DevInst(devcnt, "SR_ST_INITIALIZING",
                                                   u.bus, AddressUnknown,
                                                   IF u.upload_ok THEN 1 ELSE 0)),
                       !.flag = p.flag,
                       !.uploads = Append(@, i)]

RECURSIVE ScanBus(_, _, _)
\* the loop of hw_init from position i of the device list on
ScanBus(bus, i, c) ==
    IF i > Len(bus) THEN c
    ELSE ScanBus(bus, i + 1, ScanDevice(bus[i], i, c))

\* hw_init(devinfo) with the devices of bus on the USB; init_ok: whether
\* libusb_init succeeds.  The context of a new instance is the one
\* fx2_dev_new returns.
hw_init(bus, init_ok) ==
    /\ ~usb_context
    /\ dev_insts = <<>>
    /\ count.life < MaxDevCalls
    /\ count' = [count EXCEPT !.life = @ + 1]
    /\ IF ~init_ok
       THEN /\ last' = [NoEvent EXCEPT !.op = "init", !.ret = 0]
            /\ UNCHANGED <<devVars, ctxVars>>
       ELSE LET r == ScanBus(bus, 1,
                             [insts |-> dev_insts,
                              flag |-> new_saleae_logic_firmware,
                              uploads |-> <<>>])
            IN  /\ dev_insts' = r.insts
                /\ new_saleae_logic_firmware' = r.flag
                /\ usb_context' = TRUE
                /\ last' = [NoEvent EXCEPT !.op = "init",
                                           !.ret = Len(r.insts), !.arg = bus,
                                           !.out = r.uploads]
                /\ IF r.insts # <<>>
                   THEN /\ probe_mask' = 0
                        /\ trigger_mask' = [s \in Stages |-> 0]
                        /\ trigger_value' = [s \in Stages |-> 0]
                        /\ trigger_stage' = TRIGGER_FIRED
                        /\ trigger_buffer' = [s \in Stages |-> 0]
                        /\ limit_samples' = 0
                   ELSE UNCHANGED ctxVars
                /\ UNCHANGED open_handles
    /\ UNCHANGED <<num_samples, empty_transfer_count, inflight, freed, sent,
                   acq, stream, recent>>

\* What the USB layer does during one hw_dev_open: found tells whether
\* sl_open_dev finds the device in the list and libusb_open succeeds
\* ("opened"), finds it and libusb_open fails ("open_failed") or does not
\* find it before the waiting time is over ("not_found"); address is what
\* libusb_get_device_address returns; claim_ok and bulk_ok tell whether
\* libusb_claim_interface and the bulk transfer of set_samplerate succeed.
OpenOutcome(found, claim_ok, bulk_ok) ==
    [found |-> found, address |-> 11, claim_ok |-> claim_ok,
     bulk_ok |-> bulk_ok]

OpenOutcomes ==
    { OpenOutcome("opened", TRUE, TRUE), OpenOutcome("opened", TRUE, FALSE),
      OpenOutcome("opened", FALSE, TRUE), OpenOutcome("open_failed", TRUE, TRUE),
      OpenOutcome("not_found", TRUE, TRUE) }

\* sl_open_dev storing the address of the opened device always
sl_open_dev_readdress(d, o) ==
    IF d.status = "SR_ST_ACTIVE" \/ o.found # "opened"
    THEN [ret |-> "SR_ERR", dev |-> d]
    ELSE [ret |-> "SR_OK",
          dev |-> [d EXCEPT !.devhdl = TRUE, !.address = o.address,
                            !.status = "SR_ST_ACTIVE"]]

\* sl_open_dev(dev_index) for the registered instance d: the return value
\* and the instance afterwards
sl_open_dev(d, o) ==
    IF d.status = "SR_ST_ACTIVE" THEN [ret |-> "SR_ERR", dev |-> d]
    ELSE IF o.found = "opened"
    THEN [ret |-> "SR_OK",
          dev |-> [d EXCEPT !.devhdl = TRUE,
                            !.address = IF @ = AddressUnknown THEN o.address
                                        ELSE @,
                            !.status = "SR_ST_ACTIVE"]]
    ELSE [ret |-> "SR_ERR", dev |-> d]

\* hw_dev_open(dev_index)
hw_dev_open(dev_index, o) ==
    /\ count.life < MaxDevCalls
    /\ count' = [count EXCEPT !.life = @ + 1]
    /\ LET k == sr_dev_inst_get(dev_index)
           ev == [NoEvent EXCEPT !.op = "open", !.idx = dev_index]
           Before(d) == {[dev |-> d, ctx |-> ctxVars, n |-> Len(dev_insts),
                          flag |-> new_saleae_logic_firmware,
                          found |-> o.address, handles |-> open_handles]}
       IN
       IF k = 0
       THEN /\ last' = [ev EXCEPT !.ret = "SR_ERR"]
            /\ UNCHANGED <<dev_insts, open_handles>>
       ELSE LET d == dev_insts[k]
                r == sl_open_dev(d, o)
            IN
            IF r.ret # "SR_OK"
            THEN /\ last' = [ev EXCEPT !.ret = "SR_ERR", !.kind = "sl_open_dev",
                                       !.pre = Before(d)]
                 /\ UNCHANGED <<dev_insts, open_handles>>
            ELSE /\ open_handles' = open_handles + 1
                 /\ IF ~o.claim_ok
                    THEN \* libusb_claim_interface failed
                         /\ dev_insts' = [dev_insts EXCEPT ![k] = r.dev]
                         /\ last' = [ev EXCEPT !.ret = "SR_ERR",
                                               !.kind = "claim",
                                               !.pre = Before(d)]
                    ELSE LET c == [r.dev EXCEPT !.claimed = TRUE] IN
                         IF c.cur_samplerate # 0
                         THEN /\ dev_insts' = [dev_insts EXCEPT ![k] = c]
                              /\ last' = [ev EXCEPT !.pre = Before(d)]
                         ELSE LET sr == set_samplerate(c.cur_samplerate,
                                            new_saleae_logic_firmware,
                                            supported_samplerates[1],
                                            o.bulk_ok)
                              IN  /\ dev_insts' =
                                        [dev_insts EXCEPT ![k] =
                                            [c EXCEPT !.cur_samplerate =
                                                         sr.cur_samplerate]]
                                  /\ last' =
                                        IF sr.ret = "SR_ERR"
                                        THEN [ev EXCEPT !.ret = "SR_ERR",
                                                        !.kind = "samplerate",
                                                        !.out = sr.out,
                                                        !.pre = Before(d)]
                                        ELSE [ev EXCEPT !.pre = Before(d),
                                                        !.out = sr.out]
    /\ UNCHANGED <<ctxVars, num_samples, empty_transfer_count, inflight,
                   freed, sent, acq, stream, recent, usb_context,
                   new_saleae_logic_firmware>>

\* close_dev that forgets the handle without closing it
close_dev_leaking(d) == [handle_closed |-> FALSE, dev |-> d]

\* close_dev(sdi): whether libusb_close was called, and the instance
\* afterwards
close_dev(d) ==
    IF ~d.devhdl THEN [handle_closed |-> FALSE, dev |-> d]
    ELSE [handle_closed |-> TRUE,
          dev |-> [d EXCEPT !.devhdl = FALSE, !.claimed = FALSE,
                            !.status = "SR_ST_INACTIVE"]]

\* hw_dev_close(dev_index)
hw_dev_close(dev_index) ==
    /\ count.life < MaxDevCalls
    /\ count' = [count EXCEPT !.life = @ + 1]
    /\ LET k == sr_dev_inst_get(dev_index)
           ev == [NoEvent EXCEPT !.op = "close", !.idx = dev_index]
       IN
       IF k = 0
       THEN /\ last' = [ev EXCEPT !.ret = "SR_ERR"]
            /\ UNCHANGED <<dev_insts, open_handles>>
       ELSE LET r == close_dev(dev_insts[k])
            IN  /\ dev_insts' = [dev_insts EXCEPT ![k] = r.dev]
                /\ open_handles' = IF r.handle_closed THEN open_handles - 1
                                   ELSE open_handles
                /\ last' = [ev EXCEPT
                              !.closed = IF r.handle_closed THEN 1 ELSE 0,
                              !.pre = IF last.op = "open" /\ last.ret = "SR_OK"
                                         /\ last.idx = dev_index
                                      THEN last.pre ELSE {}]
    /\ UNCHANGED <<ctxVars, num_samples, empty_transfer_count, inflight,
                   freed, sent, acq, stream, recent, usb_context,
                   new_saleae_logic_firmware>>

\* hw_cleanup(): close_dev for every instance, the instances are freed,
\* dev_insts = NULL, libusb_exit
hw_cleanup ==
    /\ count.life < MaxDevCalls
    /\ count' = [count EXCEPT !.life = @ + 1]
    /\ LET closed == Cardinality({k \in 1..Len(dev_insts) :
                                     close_dev(dev_insts[k]).handle_closed})
       IN  /\ open_handles' = open_handles - closed
           /\ last' = [NoEvent EXCEPT !.op = "cleanup",
                                      !.arg = Len(dev_insts),
                                      !.kind = acq, !.closed = closed]
    /\ dev_insts' = <<>>
    /\ usb_context' = FALSE
    /\ UNCHANGED <<ctxVars, num_samples, empty_transfer_count, inflight,
                   freed, sent, acq, stream, recent,
                   new_saleae_logic_firmware>>

\* hw_dev_status_get(dev_index)
hw_dev_status_get(dev_index) ==
    IF sr_dev_inst_get(dev_index) # 0
    THEN dev_insts[sr_dev_inst_get(dev_index)].status
    ELSE "SR_ST_NOT_FOUND"

\* Before hw_init: no instance, no USB context.
DevInit ==
    /\ dev_insts = <<>>
    /\ usb_context = FALSE
    /\ new_saleae_logic_firmware = 0
    /\ open_handles = 0
    /\ probe_mask = 0
    /\ trigger_mask = [s \in Stages |-> 0]
    /\ trigger_value = [s \in Stages |-> 0]
    /\ trigger_stage = TRIGGER_FIRED
    /\ trigger_buffer = [s \in Stages |-> 0]
    /\ limit_samples = 0
    /\ num_samples = 0
    /\ empty_transfer_count = 0
    /\ inflight = <<>>
    /\ freed = 0
    /\ sent = <<>>
    /\ acq = "idle"
    /\ last = NoEvent
    /\ stream = <<>>
    /\ recent = <<>>
    /\ count = NoCount

\* what the host passes to hw_dev_config_set in the lifecycle specification
DevCaps ==
    {"SR_HWCAP_SAMPLERATE", "SR_HWCAP_PROBECONFIG", "SR_HWCAP_LIMIT_SAMPLES"}

DevConfigValues(hwcap) ==
    IF hwcap = "SR_HWCAP_SAMPLERATE"
    THEN {supported_samplerates[10], UnsupportedRate}
    ELSE IF hwcap = "SR_HWCAP_PROBECONFIG"
    THEN {<<Probe(1, TRUE, <<"1">>)>>}
    ELSE {TransferSize}

\* The device lifecycle: every host operation of the driver, with
\* registered and unregistered indices, from the state before hw_init.
DevNext ==
    \/ \E bus \in Buses : \E init_ok \in BOOLEAN : hw_init(bus, init_ok)
    \/ \E i \in DevIndices : \E o \in OpenOutcomes : hw_dev_open(i, o)
    \/ \E i \in DevIndices : hw_dev_close(i)
    \/ hw_cleanup
    \/ \E i \in DevIndices : \E hwcap \in DevCaps :
           \E value \in DevConfigValues(hwcap) : \E bulk_ok \in BOOLEAN :
               hw_dev_config_set(i, hwcap, value, bulk_ok, "unused")
    \/ \E i \in DevIndices : \E sink \in Sinks :
           hw_dev_acquisition_start(i, sink,
                                    [kind |-> "none", at |-> NUM_SIMUL_TRANSFERS])
    \/ \E i \in DevIndices : \E sink \in Sinks :
           hw_dev_acquisition_stop(i, sink)

DevSpec == DevInit /\ [][DevNext]_vars

\* The scan of the bus: hw_init with several supported devices on the
\* USB, and hw_cleanup before the next hw_init.
ScanNext ==
    \/ \E bus \in ScanBuses : \E init_ok \in BOOLEAN : hw_init(bus, init_ok)
    \/ hw_cleanup

ScanSpec == DevInit /\ [][ScanNext]_vars

(* ------------------------------------------------------------------ *)
(* The configuration functions on an opened device.                    *)
(* ------------------------------------------------------------------ *)

\* hw_init has found one Logic with the legacy or with the new firmware and
\* hw_dev_open has opened it
CfgInit ==
    /\ \E u \in {LogicOld, LogicNew} :
           /\ dev_insts = <<OpenDevice(u)>>
           /\ new_saleae_logic_firmware = (IF u.conf = "new" THEN 1 ELSE 0)
    /\ usb_context = TRUE
    /\ open_handles = 1
    /\ probe_mask = 0
    /\ trigger_mask = [s \in Stages |-> 0]
    /\ trigger_value = [s \in Stages |-> 0]
    /\ trigger_stage = TRIGGER_FIRED
    /\ trigger_buffer = [s \in Stages |-> 0]
    /\ limit_samples = 0
    /\ num_samples = 0
    /\ empty_transfer_count = 0
    /\ inflight = <<>>
    /\ freed = 0
    /\ sent = <<>>
    /\ acq = "idle"
    /\ last = NoEvent
    /\ stream = <<>>
    /\ recent = <<>>
    /\ count = NoCount

CfgCaps ==
    {"SR_HWCAP_SAMPLERATE", "SR_HWCAP_PROBECONFIG", "SR_HWCAP_LIMIT_SAMPLES",
     "SR_HWCAP_OTHER"}

CfgValues(hwcap) ==
    IF hwcap = "SR_HWCAP_SAMPLERATE" THEN Rates
    ELSE IF hwcap = "SR_HWCAP_PROBECONFIG" THEN CfgProbeLists
    ELSE IF hwcap = "SR_HWCAP_LIMIT_SAMPLES" THEN Limits
    ELSE {0}

\* hw_dev_config_set with every capability and value
CfgNext ==
    \E hwcap \in CfgCaps : \E value \in CfgValues(hwcap) :
        \E bulk_ok \in BOOLEAN : \E layout \in Layouts :
            hw_dev_config_set(0, hwcap, value, bulk_ok, layout)

CfgSpec == CfgInit /\ [][CfgNext]_vars

(* ------------------------------------------------------------------ *)
(* Properties of the packet stream.                                    *)
(* ------------------------------------------------------------------ *)

Positions(type) == {j \in 1..Len(sent) : sent[j].type = type}

RECURSIVE SumLogic(_)
\* the sum of the length fields of the LOGIC packets of the sequence pkts
SumLogic(pkts) ==
    IF pkts = <<>> THEN 0
    ELSE (IF Head(pkts).type = "LOGIC" THEN Head(pkts).length ELSE 0)
             + SumLogic(Tail(pkts))

\* the packets the last handler sent
SentByLast == SubSeq(sent, last.sent0 + 1, Len(sent))

\* the last handler was a completion whose buffer receive_transfer processed
Processed ==
    last.op = "receive_transfer" /\ last.kind \notin {"killed", "nomem"}

\* the number of configured trigger stages: the stages before the first
\* one with an empty mask
NumStages ==
    IF \A s \in Stages : trigger_mask[s] # 0 THEN NUM_TRIGGER_STAGES
    ELSE (CHOOSE s \in Stages :
              trigger_mask[s] = 0 /\ \A r \in 1..(s - 1) : trigger_mask[r] # 0) - 1

\* C1: the first packet the sink receives for an acquisition is HEADER,
\* there is at most one HEADER (exactly one once the acquisition runs), and
\* so no LOGIC, TRIGGER or END packet precedes the HEADER.
C1_HeaderFirst ==
    /\ sent # <<>> => sent[1].type = "HEADER"
    /\ Cardinality(Positions("HEADER")) <= 1
    /\ acq = "running" => Cardinality(Positions("HEADER")) = 1

\* C2: however often and by whichever path acquisition_stop is invoked in
\* an acquisition, the sink receives exactly one END packet, and it is the
\* last packet.
C2_SingleEnd ==
    /\ Cardinality(Positions("END")) <= 1
    /\ acq = "stopped" =>
           /\ Cardinality(Positions("END")) = 1
           /\ sent[Len(sent)].type = "END"

\* C3: once acquisition_stop has been invoked, every transfer completion
\* frees its transfer, resubmits nothing, sends no packet and leaves
\* trigger_stage, the sample counter and the empty-transfer counter alone.
C3_KilledCompletionInert ==
    [][(count.stops > 0 /\ count'.compl # count.compl) =>
           /\ inflight' = Tail(inflight)
           /\ freed' = freed + 1
           /\ sent' = sent
           /\ trigger_stage' = trigger_stage
           /\ trigger_buffer' = trigger_buffer
           /\ num_samples' = num_samples
           /\ empty_transfer_count' = empty_transfer_count]_vars

\* a completion arrived after acquisition_stop and was freed
C3_Witness ==
    /\ count.stops > 0
    /\ last.op = "receive_transfer"
    /\ last.kind = "killed"
    /\ freed > 0

\* C4: at most one TRIGGER packet per acquisition; no LOGIC packet before
\* it; the LOGIC packet that follows it directly carries trigger_buffer
\* and is the first LOGIC packet; every other LOGIC packet comes later.
\* While the matcher still searches, no LOGIC packet has been sent.  (The
\* packets are compared with the configuration while it is the one they
\* were sent under: in a running acquisition and after a completion.)
C4_TriggerOrder ==
    LET current == acq = "running" \/ last.op = "receive_transfer"
    IN  /\ Cardinality(Positions("TRIGGER")) <= 1
        /\ \A j \in Positions("TRIGGER") :
               /\ \A i \in 1..(j - 1) : sent[i].type # "LOGIC"
               /\ j + 1 <= Len(sent)
               /\ sent[j + 1].type = "LOGIC"
               /\ sent[j + 1].length \in Stages
               /\ sent[j + 1].data =
                      Buf(SubSeq(trigger_buffer, 1, sent[j + 1].length), 0,
                          sent[j + 1].length)
               /\ current => sent[j + 1].length = NumStages
        /\ (current /\ trigger_stage >= 0) =>
               Positions("LOGIC") = {} /\ Positions("TRIGGER") = {}

\* a trigger of several stages fired and post-trigger samples followed
C4_Witness ==
    /\ NumStages >= 2
    /\ \E j \in Positions("TRIGGER") :
           /\ Len(sent) >= j + 3
           /\ sent[j + 3].type = "LOGIC"

\* the first index of buf at which k consecutive samples match the stages
\* 0 .. k-1, or -1 (positions inside the run of equal bytes that ends the
\* buffer are all alike, so the first of them stands for the rest)
Occurrences(buf, k) ==
    {p \in 0..Len(buf.head) :
        /\ p + k <= buf.len
        /\ \A s \in 0..(k - 1) : StageMatches(ByteAt(buf, p + s), s)}

FirstOccurrence(buf, k) ==
    IF Occurrences(buf, k) = {} THEN -1
    ELSE CHOOSE p \in Occurrences(buf, k) : \A q \in Occurrences(buf, k) : p <= q

\* C5: when the samples matching all k stages lie at consecutive positions
\* of one transfer, the completion of that transfer sends TRIGGER, a LOGIC
\* packet with exactly these k samples, and a LOGIC packet with the rest
\* of the transfer after the last matched sample.
C5_FiresInSameTransfer ==
    (/\ Processed
     /\ count.fault = 0
     /\ last.stage0 = 0
     /\ NumStages >= 1
     /\ FirstOccurrence(last.buf, NumStages) >= 0) =>
        LET k == NumStages
            p == FirstOccurrence(last.buf, k)
        IN  /\ trigger_stage = TRIGGER_FIRED
            /\ Len(SentByLast) >= 3
            /\ SubSeq(SentByLast, 1, 3) =
                  << TriggerPacket,
                     LogicPacket(k, Buf([j \in 1..k |-> ByteAt(last.buf, p + j - 1)],
                                        0, k)),
                     LogicPacket(last.buf.len - (p + k), Drop(last.buf, p + k)) >>

\* C6: with the stages of the trigger "0001" and the received samples
\* 0, 0, 0, 0, 1 the matcher has fired once the 1 is consumed, with
\* trigger_buffer = {0, 0, 0, 1}.
C6_Backtrack ==
    (/\ acq = "running"
     /\ count.fault = 0
     /\ trigger_mask = <<1, 1, 1, 1>>
     /\ trigger_value = <<0, 0, 0, 1>>
     /\ stream = <<0, 0, 0, 0, 1>>) =>
        /\ trigger_stage = TRIGGER_FIRED
        /\ trigger_buffer = <<0, 0, 0, 1>>

\* C7: when the matcher fires with k stages, trigger_buffer[0..k) holds the
\* k consecutive samples of the received stream that end at the sample
\* completing the last stage.
C7_ConsecutiveSamples ==
    (Processed /\ count.fault = 0 /\ last.kind = "fired") =>
        /\ Len(last.window) = NumStages
        /\ last.window = SubSeq(trigger_buffer, 1, NumStages)

\* C8: with sample_limit > 0 the lengths of all LOGIC packets of an
\* acquisition sum to at most sample_limit + the largest transfer size.
C8_LimitBound ==
    (last.op = "receive_transfer" /\ count.fault = 0 /\ limit_samples > 0) =>
        SumLogic(sent) <= limit_samples + TransferSize

\* C9: with the matcher fired and sample_limit = L > 0, a completion
\* invokes acquisition_stop exactly when its buffer makes the total of the
\* processed buffer lengths greater than L, and then END directly follows
\* the LOGIC packet of that buffer; with L = 0 the limit never stops.
C9_StopAtLimit ==
    (Processed /\ last.kind \in {"fired", "passed"}) =>
        LET total == last.ns0 + last.buf.len
            over == limit_samples > 0 /\ total > limit_samples
            n == Len(sent)
        IN  /\ over <=> sent[n].type = "END"
            /\ over => /\ sent[n - 1].type = "LOGIC"
                       /\ sent[n - 1].data = Drop(last.buf, last.buf.len - sent[n - 1].length)
                       /\ num_samples = KillValue
                       /\ count.stops > 0
            /\ ~over => /\ sent[n].type = "LOGIC"
                        /\ num_samples = total

\* sample_limit = 4096: a total of exactly 4096 did not stop, the next
\* buffer did; the sink saw HEADER, LOGIC(4096), LOGIC(4096), END
C9_Witness ==
    /\ Processed
    /\ limit_samples = 4096
    /\ last.ns0 = 4096
    /\ Len(sent) = 4
    /\ [j \in 1..4 |-> sent[j].type] = <<"HEADER", "LOGIC", "LOGIC", "END">>
    /\ sent[2].length = 4096
    /\ sent[3].length = 4096

\* C10: a zero-length completion invokes acquisition_stop exactly when it
\* is more than MAX_EMPTY_TRANSFERS in a row (the fourth), sending END and
\* nothing else; a completion with samples resets the count.
C10_Watchdog ==
    /\ (Processed /\ last.kind = "empty") =>
           /\ count.emptyRun > MAX_EMPTY_TRANSFERS =>
                  /\ SentByLast = <<EndPacket>>
                  /\ num_samples = KillValue
           /\ count.emptyRun <= MAX_EMPTY_TRANSFERS =>
                  /\ SentByLast = <<>>
                  /\ num_samples = last.ns0
                  /\ empty_transfer_count = count.emptyRun
    /\ (Processed /\ last.kind # "empty") =>
           /\ empty_transfer_count = 0
           /\ count.emptyRun = 0

\* the fourth zero-length completion in a row ended the acquisition
C10_Witness ==
    /\ Processed
    /\ last.kind = "empty"
    /\ count.emptyRun = MAX_EMPTY_TRANSFERS + 1
    /\ sent = <<HeaderPacket, EndPacket>>
    /\ acq = "stopped"

\* C24: while the matcher searches, trigger_stage is within
\* 0 .. NUM_TRIGGER_STAGES and every index at which receive_transfer reads
\* trigger_mask[] / trigger_value[] or writes trigger_buffer[] is within
\* 0 .. NUM_TRIGGER_STAGES - 1 (so the stage a later completion starts
\* with is below NUM_TRIGGER_STAGES), for every accepted trigger
\* configuration and every sequence of buffers; once trigger_stage is
\* TRIGGER_FIRED no completion sets it back.
C24_StageInBounds ==
    /\ trigger_stage \in (0..NUM_TRIGGER_STAGES) \cup {TRIGGER_FIRED}
    /\ trigger_stage # TRIGGER_FIRED =>
           trigger_stage \in 0..(NUM_TRIGGER_STAGES - 1)
    /\ last.op = "receive_transfer" =>
           /\ last.used \subseteq 0..(NUM_TRIGGER_STAGES - 1)
           /\ last.stage0 = TRIGGER_FIRED => trigger_stage = TRIGGER_FIRED

\* a trigger of NUM_TRIGGER_STAGES stages fired: the last stage was read
\* and written at index NUM_TRIGGER_STAGES - 1
C24_Witness ==
    /\ Processed
    /\ last.kind = "fired"
    /\ NumStages = NUM_TRIGGER_STAGES
    /\ last.stage0 = NUM_TRIGGER_STAGES - 1
    /\ (NUM_TRIGGER_STAGES - 1) \in last.used
    /\ trigger_stage = TRIGGER_FIRED

\* C22: when the probes were configured without a trigger string, every
\* completion of length > 0 that receive_transfer handles in an
\* acquisition before its stop sends exactly one LOGIC packet with
\* unitsize 1 and the whole buffer as payload (followed by END only when
\* that buffer made the sample limit stop the acquisition), and no TRIGGER
\* packet is sent.
C22_PassThrough ==
    (/\ last.op = "receive_transfer"
     /\ acq = "running" \/ last.stop
     /\ last.stage0 = TRIGGER_FIRED
     /\ last.buf.len > 0) =>
        /\ SentByLast \in { <<LogicPacket(last.buf.len, last.buf)>>,
                            <<LogicPacket(last.buf.len, last.buf), EndPacket>> }
        /\ SentByLast[1].unitsize = 1
        /\ Positions("TRIGGER") = {}

(* ------------------------------------------------------------------ *)
(* Properties of the configuration functions (CfgSpec).                *)
(* ------------------------------------------------------------------ *)

\* the last handler was hw_dev_config_set for this capability on a
\* registered device
Configured(hwcap) ==
    /\ last.op = "config_set"
    /\ last.kind = hwcap
    /\ sr_dev_inst_get(last.idx) # 0

\* the divider table of the new firmware as the specification lists it
NewFirmwareTable ==
    [r \in {24000000, 16000000, 12000000, 8000000, 4000000, 2000000,
            1000000, 500000, 250000, 200000} |->
        CASE r = 24000000 -> 224 [] r = 16000000 -> 213 [] r = 12000000 -> 226
          [] r = 8000000 -> 212 [] r = 4000000 -> 218 [] r = 2000000 -> 230
          [] r = 1000000 -> 142 [] r = 500000 -> 254 [] r = 250000 -> 158
          [] r = 200000 -> 78]

\* C11: for every supported rate and both firmware generations,
\* config_set(SAMPLERATE, rate) hands exactly one two-byte payload
\* [cmd, divider] to endpoint 1 OUT: cmd 0xD5 and the table value for the
\* new firmware, cmd 0x01 and floor(48 / rate_MHz) - 1 (24 MHz -> 0x01,
\* 200 kHz -> 0xEF) for the legacy firmware.
C11_RateCommand ==
    (Configured("SR_HWCAP_SAMPLERATE") /\ last.arg \in DOMAIN NewFirmwareTable) =>
        LET r == last.arg
            legacy == (48000000 \div r) - 1
        IN  /\ Len(last.out) = 1
            /\ Len(last.out[1]) = 2
            /\ new_saleae_logic_firmware = 1 =>
                   last.out[1] = <<213, NewFirmwareTable[r]>>
            /\ new_saleae_logic_firmware = 0 =>
                   /\ last.out[1] = <<1, legacy>>
                   /\ legacy \in 0..255
                   /\ r = 24000000 => last.out[1][2] = 1
                   /\ r = 200000 => last.out[1][2] = 239

\* the legacy firmware was given 200 kHz: payload 0x01, 0xEF
C11_Witness ==
    /\ Configured("SR_HWCAP_SAMPLERATE")
    /\ last.arg = 200000
    /\ new_saleae_logic_firmware = 0
    /\ last.ret = "SR_OK"
    /\ last.out = << <<1, 239>> >>

\* C12: config_set(SAMPLERATE, r) with an unsupported r returns
\* SR_ERR_SAMPLERATE, writes no command and changes nothing;
\* cur_samplerate changes only when the command was written
\* successfully, and then it is r.
C12_RateRejected ==
    [][(count'.host # count.host /\ last'.op = "config_set"
            /\ last'.kind = "SR_HWCAP_SAMPLERATE"
            /\ sr_dev_inst_get(last'.idx) # 0) =>
           LET k == sr_dev_inst_get(last'.idx)
               r == last'.arg
           IN  /\ ~(\E i \in 1..Len(supported_samplerates) :
                        supported_samplerates[i] = r) =>
                      /\ last'.ret = "SR_ERR_SAMPLERATE"
                      /\ last'.out = <<>>
                      /\ UNCHANGED <<ctxVars, devVars, num_samples,
                                     empty_transfer_count, inflight, sent>>
               /\ dev_insts'[k].cur_samplerate # dev_insts[k].cur_samplerate =>
                      /\ last'.ret = "SR_OK"
                      /\ last'.out # <<>>
               /\ last'.ret = "SR_OK" => dev_insts'[k].cur_samplerate = r
               /\ last'.ret # "SR_OK" => dev_insts' = dev_insts]_vars

\* 3 MHz was rejected after the rate had been set to 24 MHz
C12_Witness ==
    /\ Configured("SR_HWCAP_SAMPLERATE")
    /\ last.arg = UnsupportedRate
    /\ last.ret = "SR_ERR_SAMPLERATE"
    /\ last.out = <<>>
    /\ dev_insts[1].cur_samplerate = 24000000

\* C13: a config_set that returns an error leaves probe_mask,
\* trigger_mask[], trigger_value[], trigger_stage, cur_samplerate and
\* limit_samples as they were before the call.
C13_NoSideEffectOnError ==
    [][(count'.host # count.host /\ last'.op = "config_set"
            /\ last'.ret # "SR_OK") =>
           /\ probe_mask' = probe_mask
           /\ trigger_mask' = trigger_mask
           /\ trigger_value' = trigger_value
           /\ trigger_stage' = trigger_stage
           /\ limit_samples' = limit_samples
           /\ dev_insts' = dev_insts]_vars

\* the enabled probes of the list that have a trigger string
Triggered(probes) ==
    {l \in 1..Len(probes) : probes[l].enabled /\ probes[l].trigger # NoTrigger}

C26_NoStorePastTheEnd ==
    Configured("SR_HWCAP_PROBECONFIG") => ~last.oob

\* bit b of the non-negative integer v
Bit(v, b) == (v \div (2 ^ b)) % 2

\* the enabled probes of the list with bit b (index b + 1)
EnabledAt(probes, b) ==
    {l \in 1..Len(probes) : probes[l].enabled /\ probes[l].index = b + 1}

\* C14: after a successful config_set(PROBECONFIG, probes), probe_mask has
\* exactly the bits of the enabled probes, bit (index - 1) of
\* trigger_mask[s] is set iff an enabled probe of that index has a trigger
\* character at position s, and the bit of trigger_value[s] is set iff
\* that character is '1'; every other bit is zero.
C14_MasksFromProbes ==
    (Configured("SR_HWCAP_PROBECONFIG") /\ last.ret = "SR_OK") =>
        LET probes == last.arg
            HasChar(l, s) ==
                probes[l].trigger # NoTrigger /\ Len(probes[l].trigger) >= s
        IN  /\ probe_mask < 2 ^ 16
            /\ \A b \in 0..15 :
                   /\ Bit(probe_mask, b) = 1 <=> EnabledAt(probes, b) # {}
                   /\ \A s \in Stages :
                          /\ trigger_mask[s] < 2 ^ 16
                          /\ trigger_value[s] < 2 ^ 16
                          /\ Bit(trigger_mask[s], b) = 1 <=>
                                 \E l \in EnabledAt(probes, b) : HasChar(l, s)
                          /\ Bit(trigger_value[s], b) = 1 <=>
                                 \E l \in EnabledAt(probes, b) :
                                     HasChar(l, s) /\ probes[l].trigger[s] = "1"

\* two probes with triggers of different lengths were configured over an
\* earlier configuration
C14_Witness ==
    /\ Configured("SR_HWCAP_PROBECONFIG")
    /\ last.ret = "SR_OK"
    /\ count.host >= 2
    /\ probe_mask = 3
    /\ trigger_mask = <<3, 3, 2, 0>>
    /\ trigger_value = <<2, 3, 0, 0>>

(* ------------------------------------------------------------------ *)
(* Properties of the device lifecycle (DevSpec).                       *)
(* ------------------------------------------------------------------ *)

\* C15: in every reachable state a device whose status is SR_ST_ACTIVE has
\* an open USB handle and its interface is claimed.
C15_ActiveIsOpenAndClaimed ==
    \A k \in 1..Len(dev_insts) :
        dev_insts[k].status = "SR_ST_ACTIVE" =>
            dev_insts[k].devhdl /\ dev_insts[k].claimed

\* C16: a device whose address is the sentinel 0xFF has received firmware
\* (fw_updated is non-zero) and has not been located by hw_dev_open yet;
\* a located device (opened now or before) never has the address 0xFF.
C16_SentinelMeansFirmwareUploaded ==
    \A k \in 1..Len(dev_insts) :
        /\ dev_insts[k].address = AddressUnknown =>
               /\ dev_insts[k].fw_updated # 0
               /\ dev_insts[k].status = "SR_ST_INITIALIZING"
               /\ ~dev_insts[k].devhdl
        /\ dev_insts[k].status # "SR_ST_INITIALIZING" =>
               dev_insts[k].address # AddressUnknown

\* C17: after hw_cleanup the registry is empty, no handle the driver
\* opened is still open, and hw_dev_status_get returns SR_ST_NOT_FOUND for
\* every index.
C17_CleanupReleasesAll ==
    last.op = "cleanup" =>
        /\ dev_insts = <<>>
        /\ open_handles = 0
        /\ ~usb_context
        /\ \A i \in -1..2 : hw_dev_status_get(i) = "SR_ST_NOT_FOUND"

\* hw_cleanup ran with an acquisition started and closed the handle of
\* the opened device
C17_Witness ==
    /\ last.op = "cleanup"
    /\ last.kind = "running"
    /\ last.arg = 1
    /\ last.closed = 1
    /\ inflight # <<>>

\* the last two handlers were a successful hw_dev_open and hw_dev_close
\* of the same device
OpenedAndClosed ==
    /\ last.op = "close"
    /\ last.ret = "SR_OK"
    /\ last.pre # {}

\* C18 as stated: a successful open followed by close leaves
\* cur_samplerate, limit_samples, the probe and trigger configuration,
\* the recorded bus and address and the registry as they were before the
\* open, the status going INACTIVE -> ACTIVE -> INACTIVE.
C18_OpenCloseNoOp ==
    OpenedAndClosed =>
        \A b \in last.pre :
            LET d == dev_insts[sr_dev_inst_get(last.idx)]
            IN  /\ b.dev.status = "SR_ST_INACTIVE"
                /\ d = b.dev
                /\ ctxVars = b.ctx
                /\ Len(dev_insts) = b.n

\* C18 amended: as C18, except that cur_samplerate is the slowest
\* supported rate if it was 0 before the open, that the recorded address
\* is the one the device was found at if it was 0xFF before the open,
\* and that the status before the open may be INITIALIZING as well as
\* INACTIVE; afterwards it is INACTIVE and the handle is closed.
C18_OpenCloseAmended ==
    OpenedAndClosed =>
        \A b \in last.pre :
            LET d == dev_insts[sr_dev_inst_get(last.idx)]
            IN  /\ b.dev.status \in {"SR_ST_INACTIVE", "SR_ST_INITIALIZING"}
                /\ d.status = "SR_ST_INACTIVE"
                /\ ~d.devhdl /\ ~d.claimed
                /\ d.cur_samplerate =
                       (IF b.dev.cur_samplerate = 0 THEN 200000
                        ELSE b.dev.cur_samplerate)
                /\ d.address =
                       (IF b.dev.address = 255 THEN b.found
                        ELSE b.dev.address)
                /\ d.address # 255
                /\ d.bus = b.dev.bus
                /\ d.index = b.dev.index
                /\ d.fw_updated = b.dev.fw_updated
                /\ ctxVars = b.ctx
                /\ Len(dev_insts) = b.n
                /\ new_saleae_logic_firmware = b.flag
                /\ open_handles = 0

\* a device with a recorded address and a rate set earlier was opened and
\* closed again
C18_Witness ==
    /\ OpenedAndClosed
    /\ \E b \in last.pre :
           /\ b.dev.status = "SR_ST_INACTIVE"
           /\ b.dev.cur_samplerate = 24000000
           /\ b.dev.address = 6
    /\ dev_insts[sr_dev_inst_get(last.idx)].cur_samplerate = 24000000
    /\ dev_insts[sr_dev_inst_get(last.idx)].address = 6

\* C29: a hw_dev_open that returns an error (device not found, libusb_open
\* failed, interface not claimed, default rate not written, device already
\* active) leaves the status and the USB handle of the device as they were
\* before the call; in particular the status has not become SR_ST_ACTIVE.
C29_FailedOpenChangesNothing ==
    (last.op = "open" /\ last.ret # "SR_OK" /\ sr_dev_inst_get(last.idx) # 0) =>
        \A b \in last.pre :
            LET d == dev_insts[sr_dev_inst_get(last.idx)]
            IN  /\ d.status = b.dev.status
                /\ d.devhdl = b.dev.devhdl
                /\ open_handles = b.handles

\* the host operations that take a dev_index
PerDeviceOps ==
    {"open", "close", "config_set", "acquisition_start", "acquisition_stop"}

\* C20: a per-device host operation called with an index that is not in
\* the registry, and acquisition_start / acquisition_stop called with a
\* null session sink, returns an error, sends no packet, submits no
\* transfer and leaves the registry, the devices and the engine state
\* unchanged.
C20_HostViolationsRejected ==
    [][((count'.host # count.host \/ count'.life # count.life)
            /\ last'.op \in PerDeviceOps
            /\ \/ sr_dev_inst_get(last'.idx) = 0
               \/ /\ last'.op \in {"acquisition_start", "acquisition_stop"}
                  /\ last'.sink = "NULL") =>
           /\ last'.ret # "SR_OK"
           /\ UNCHANGED <<ctxVars, devVars, num_samples,
                          empty_transfer_count, inflight, freed, sent>>]_vars

(* ------------------------------------------------------------------ *)
(* Transfers (Spec).                                                   *)
(* ------------------------------------------------------------------ *)

\* C28: the number of transfers in flight (submitted, not completed)
\* never exceeds NUM_SIMUL_TRANSFERS, and while the acquisition runs and no
\* submission or allocation has failed it is exactly NUM_SIMUL_TRANSFERS
\* each time receive_transfer returns.
C28_InflightBound ==
    /\ Len(inflight) <= NUM_SIMUL_TRANSFERS
    /\ (last.op = "receive_transfer" /\ acq = "running" /\ count.fault = 0) =>
           Len(inflight) = NUM_SIMUL_TRANSFERS

\* C19: every transfer that was submitted successfully is eventually
\* freed.  Once no transfer is in flight no completion can arrive any
\* more, so by then every submitted transfer must have been freed.
C19_SubmittedAreFreed ==
    inflight = <<>> => freed = count.xfers

(* ------------------------------------------------------------------ *)
(* The scan of the bus (ScanSpec).                                     *)
(* ------------------------------------------------------------------ *)

\* the firmware-presence predicate: the configuration of the Logic with 2
\* or 4 endpoints, the first two being 1 OUT and 2 IN
FirmwarePresent(u) == u.conf \in {"old", "new"}

\* the positions of the device list whose descriptor can be read and whose
\* VID/PID matches a profile
Matching(bus) == {i \in 1..Len(bus) : bus[i].desc_ok /\ bus[i].supported}

\* the number of matching devices before position i
Rank(bus, i) == Cardinality({j \in Matching(bus) : j < i})

C25_Restartable ==
    /\ (last.op = "acquisition_start" /\ last.ret = "SR_OK") =>
           /\ num_samples = 0
           /\ empty_transfer_count = 0
    /\ (/\ last.op = "receive_transfer"
        /\ acq = "running"
        /\ count.fault = 0
        /\ last.buf.len > 0) =>
           /\ last.kind # "killed"
           /\ last.stage0 = TRIGGER_FIRED =>
                  /\ SentByLast # <<>>
                  /\ SentByLast[1].type = "LOGIC"
           /\ inflight # <<>>
           /\ inflight[Len(inflight)].length = TransferSize

\* C27: the data buffer of every completed transfer is freed exactly once
\* by the receive_transfer call that takes it over, on every path: after
\* its samples were sent as LOGIC, after it was dropped (zero-length
\* completion, matcher still searching, stage advanced without firing),
\* and when its transfer is freed after the stop.
C27_BuffersFreed ==
    (last.op = "receive_transfer" /\ last.kind # "nomem") => last.gfree = 1

====
